---- MODULE Spec2Model ----
(***************************************************************************)
(* FlinkTableBuilder (feathub/processors/flink/table_builder/              *)
(* flink_table_builder.py): the compilation of table descriptors into      *)
(* native tables, with the per-session cache _built_tables.                *)
(*                                                                         *)
(* Descriptors, features and transforms are records, so that TLA+ equality *)
(* is the structural equality the code relies on.  An optional value is a  *)
(* sequence of length 0 (None) or 1.  A native table is a record carrying  *)
(* an object identity (id), the operation that produced it, the name of    *)
(* the descriptor it was produced for, and its schema (field names).       *)
(* Exceptions are modelled by the err field of an operation's outcome:     *)
(* once err is set, every caller returns the outcome unchanged.            *)
(***************************************************************************)
EXTENDS Integers, Sequences, FiniteSets, TLC

VARIABLES
    built_tables,   \* FlinkTableBuilder._built_tables: name -> optional (descriptor, table)
    hash_order,     \* iteration order of the interpreter's set of strings (table_names)
    nid,            \* identity of the next native table object created
    nbuilds,        \* number of build() calls made in this session
    features_arg,   \* the features argument of the last build() call (optional)
    result,         \* outcome of the last build() call: [err, table]
    calls,          \* collaborator calls made during the last build() call
    gets,           \* _get_table requests made during the last build() call
    stores,         \* every assignment to _built_tables[name] in this session
    built_before,   \* _built_tables as it was when the last build() call started
    view,           \* a feature view under compilation (view-level specification)
    dispatched,     \* features the dispatch loops did not skip, during the last call
    phase,          \* view-level specification: "init", "resolved", "compiled"
    dependent_features  \* view-level specification: result of _get_dependent_features

vars == <<built_tables, hash_order, nid, nbuilds, features_arg, result, calls,
          gets, stores, built_before, view, dispatched, phase, dependent_features>>

----------------------------------------------------------------------------
(* Bounds of the model *)

\* number of build() calls in one session
MaxBuilds == 2
\* depth of nested _get_table calls at which the interpreter raises RecursionError
MaxDepth == 4
\* number of features declared by a drawn feature view
MaxDeclared == 3

----------------------------------------------------------------------------
(* Generic helpers on sequences *)

None == <<>>
Some(x) == <<x>>

Range(s) == {s[i] : i \in 1..Len(s)}
Contains(s, x) == \E i \in 1..Len(s) : s[i] = x

RECURSIVE SeqFilterIn(_, _)
\* the subsequence of s of the elements that are in set S
SeqFilterIn(s, S) ==
    IF s = <<>> THEN <<>>
    ELSE IF Head(s) \in S THEN <<Head(s)>> \o SeqFilterIn(Tail(s), S)
    ELSE SeqFilterIn(Tail(s), S)

RECURSIVE AppendMissing(_, _)
\* append to acc each element of s that acc does not hold yet, in order
AppendMissing(acc, s) ==
    IF s = <<>> THEN acc
    ELSE AppendMissing(IF Contains(acc, Head(s)) THEN acc ELSE Append(acc, Head(s)),
                       Tail(s))

\* number of positions of s holding x
Count(s, x) == Cardinality({i \in 1..Len(s) : s[i] = x})

\* index of the first position of s holding x (0 if none)
IndexOf(s, x) ==
    IF Contains(s, x) THEN CHOOSE i \in 1..Len(s) : s[i] = x /\ \A j \in 1..(i-1) : s[j] # x
    ELSE 0

----------------------------------------------------------------------------
(* Descriptor / feature model *)

EVENT_TIME_ATTRIBUTE_NAME == "__event_time_attribute__"

ExpressionTransform(expr) ==
    [type |-> "ExpressionTransform", expr |-> expr]
OverWindowTransform(expr, agg_func, group_by_keys, window_size) ==
    [type |-> "OverWindowTransform", expr |-> expr, agg_func |-> agg_func,
     group_by_keys |-> group_by_keys, window_size |-> window_size]
SlidingWindowTransform(expr, agg_func, group_by_keys, window_size, step_size) ==
    [type |-> "SlidingWindowTransform", expr |-> expr, agg_func |-> agg_func,
     group_by_keys |-> group_by_keys, window_size |-> window_size,
     step_size |-> step_size]
JoinTransform(table_name, feature_name) ==
    [type |-> "JoinTransform", table_name |-> table_name, feature_name |-> feature_name]
\* a transform kind the builder does not dispatch on
PythonUdfTransform(udf) ==
    [type |-> "PythonUdfTransform", udf |-> udf]

Feature(name, transform, keys, input_features) ==
    [name |-> name, transform |-> transform, keys |-> keys,
     input_features |-> input_features]

FeatureTable(name, fields, timestamp_field) ==
    [type |-> "FeatureTable", name |-> name, fields |-> fields,
     timestamp_field |-> timestamp_field]
DerivedFeatureView(name, source, features, keep_source_fields, timestamp_field, unresolved) ==
    [type |-> "DerivedFeatureView", name |-> name, source |-> source,
     features |-> features, keep_source_fields |-> keep_source_fields,
     timestamp_field |-> timestamp_field, timestamp_format |-> "epoch",
     unresolved |-> unresolved]
SlidingFeatureView(name, source, features, timestamp_field, timestamp_format) ==
    [type |-> "SlidingFeatureView", name |-> name, source |-> source,
     features |-> features, keep_source_fields |-> FALSE,
     timestamp_field |-> timestamp_field, timestamp_format |-> timestamp_format,
     unresolved |-> FALSE]
\* a TableDescriptor that is neither a FeatureTable nor a supported FeatureView
OtherDescriptor(name) ==
    [type |-> "OnDemandFeatureView", name |-> name, timestamp_field |-> None,
     unresolved |-> FALSE]
DataFrame(columns) ==
    [type |-> "DataFrame", columns |-> columns]

IsFeatureView(d) ==
    d.type \in {"DerivedFeatureView", "SlidingFeatureView", "OnDemandFeatureView"}

\* OverWindowDescriptor.from_over_window_transform: the shape of the window
OverWindowDescriptor(transform) ==
    [group_by_keys |-> transform.group_by_keys, window_size |-> transform.window_size]
\* SlidingWindowDescriptor.from_sliding_window_transform: the shape of the window
SlidingWindowDescriptor(transform) ==
    [group_by_keys |-> transform.group_by_keys, window_size |-> transform.window_size,
     step_size |-> transform.step_size]
\* AggregationFieldDescriptor.from_feature
AggregationFieldDescriptor(feature) ==
    [field_name |-> feature.name, agg_func |-> feature.transform.agg_func,
     expr |-> feature.transform.expr]
\* get_default_value_and_type: the typed default of an aggregation
get_default_value_and_type(agg_descriptor) ==
    IF agg_descriptor.agg_func \in {"COUNT", "SUM"}
    THEN [value |-> "0", type |-> "BIGINT"]
    ELSE [value |-> "NULL", type |-> "DOUBLE"]

\* JoinFieldDescriptor.from_field_name: a field passed through as it is
JoinFieldDescriptor_from_field_name(field_name) ==
    [field_name |-> field_name, role |-> "passthrough", valid_time |-> None]
\* _get_feature_valid_time: the step of the sliding window that computes the
\* field, for a SlidingFeatureView; no bound otherwise
GetFeatureValidTime(table_descriptor, feature_name) ==
    IF table_descriptor.type # "SlidingFeatureView" THEN None
    ELSE LET fs == {f \in Range(table_descriptor.features) : f.name = feature_name}
         IN  IF \E f \in fs : f.transform.type = "SlidingWindowTransform"
             THEN Some((CHOOSE f \in fs : f.transform.type = "SlidingWindowTransform")
                          .transform.step_size)
             ELSE None
\* JoinFieldDescriptor.from_table_descriptor_and_field_name: a pulled value
JoinFieldDescriptor_from_table_descriptor_and_field_name(table_descriptor, field_name) ==
    [field_name |-> field_name, role |-> "pulled",
     valid_time |-> GetFeatureValidTime(table_descriptor, field_name)]

----------------------------------------------------------------------------
(* The features, descriptors and registry the model draws its inputs from *)

UserKey == <<"user_id">>

\* expression features, with a chain of inputs e3 -> e2 -> e1
FE1 == Feature("e1", ExpressionTransform("spend + 1"), None, <<>>)
FE2 == Feature("e2", ExpressionTransform("e1 * 2"), None, <<FE1>>)
FE3 == Feature("e3", ExpressionTransform("e2 + 3"), None, <<FE2>>)
\* a feature that is already a column of the source
FSpend == Feature("spend", ExpressionTransform("spend"), None, <<>>)
\* a transform kind the dispatcher does not know
FUdf == Feature("udf", PythonUdfTransform("f"), None, <<>>)

\* over-window features: FO1 and FO2 share one window, FO3 has another
FO1 == Feature("o1", OverWindowTransform("spend", "SUM", UserKey, 0), None, <<>>)
FO2 == Feature("o2", OverWindowTransform("spend", "COUNT", UserKey, 0), None, <<>>)
FO3 == Feature("o3", OverWindowTransform("e1", "SUM", UserKey, 60), None, <<FE1>>)
\* an over-window feature named like a column of the source
FOspend == Feature("spend", OverWindowTransform("spend", "MAX", UserKey, 0), None, <<>>)
\* an expression over an over-window feature
FE4 == Feature("e4", ExpressionTransform("o1 / 2"), None, <<FO1>>)

\* join features on table "t": three with the same keys, FJts pulling the
\* right table's timestamp field as its value
FJprice == Feature("price", JoinTransform("t", "price"), Some(UserKey), <<>>)
FJqty == Feature("qty", JoinTransform("t", "qty"), Some(UserKey), <<>>)
FJts == Feature("ts_t", JoinTransform("t", "ts_t"), Some(UserKey), <<>>)
\* join features whose keys are not declared, empty, or not in the source
FJnokey == Feature("discount", JoinTransform("t", "discount"), None, <<>>)
FJempty == Feature("stock", JoinTransform("t", "stock"), Some(<<>>), <<>>)
FJmissing == Feature("tax", JoinTransform("t", "tax"), Some(<<"user_id", "shop_id">>), <<>>)
\* a join feature on a table that declares no timestamp field
FJnots == Feature("rate", JoinTransform("u", "rate"), Some(UserKey), <<>>)
\* an over-window feature over a join feature
FO4 == Feature("o4", OverWindowTransform("price", "SUM", UserKey, 0), None, <<FJprice>>)
\* join features on the views "w", "a" and "b"
FJcnt == Feature("cnt", JoinTransform("w", "cnt"), Some(UserKey), <<>>)
FJa == Feature("fa", JoinTransform("a", "fa"), Some(UserKey), <<>>)
FJb == Feature("fb", JoinTransform("b", "fb"), Some(UserKey), <<>>)

\* sliding-window features: FS1 and FS2 share one window
FS1 == Feature("cnt", SlidingWindowTransform("spend", "COUNT", UserKey, 10, 5), Some(UserKey), <<>>)
FS2 == Feature("total", SlidingWindowTransform("spend", "SUM", UserKey, 10, 5), Some(UserKey), <<>>)
FS3 == Feature("avg", SlidingWindowTransform("spend", "AVG", UserKey, 10, 10), Some(UserKey), <<>>)
FS4 == Feature("top", SlidingWindowTransform("spend", "MAX", UserKey, 20, 5), Some(UserKey), <<>>)

\* the pools a drawn view takes its declared features from
PoolExpression == {FE1, FE2, FE3, FSpend, FUdf, FE4, FO1}
PoolWindow == {FO1, FO2, FO3, FOspend, FE1, FE4, FO4, FJprice}
PoolJoin == {FJprice, FJqty, FJts, FJnokey, FJempty, FJmissing, FJnots}
PoolSliding == {FS1, FS2, FS3, FS4, FE1, FO1}

\* source tables
Src == FeatureTable("s", <<"user_id", "spend", "ts">>, Some("ts"))
SrcAlt == FeatureTable("s", <<"user_id", "ts">>, Some("ts"))
Items == FeatureTable("t", <<"user_id", "price", "qty", "stock", "discount", "tax", "ts_t">>,
                      Some("ts_t"))
Rates == FeatureTable("u", <<"user_id", "rate">>, None)
KeyTable == FeatureTable("k", <<"user_id">>, None)

\* feature views
ViewV == DerivedFeatureView("v", Src, <<FE1, FO1, FJprice>>, TRUE, Some("ts"), FALSE)
ViewVAlt == DerivedFeatureView("v", Src, <<FE1>>, FALSE, Some("ts"), FALSE)
ViewD == DerivedFeatureView("d", ViewV,
             <<Feature("d1", ExpressionTransform("o1 + e1"), None, <<>>)>>,
             FALSE, Some("ts"), FALSE)
ViewN == DerivedFeatureView("n", SrcAlt, <<FE1>>, TRUE, Some("ts"), FALSE)
ViewW == SlidingFeatureView("w", Src, <<FS1, FS3>>, Some("window_time"), "epoch")
ViewWAlt == SlidingFeatureView("w", Src, <<FS1>>, Some("window_time"), "%Y-%m-%d")
ViewJW == DerivedFeatureView("jw", Src, <<FJcnt>>, FALSE, Some("ts"), FALSE)
\* a view named like its own source
ViewS == DerivedFeatureView("s", Src, <<FE1>>, TRUE, Some("ts"), FALSE)
ViewUnresolved == DerivedFeatureView("un", Src, <<FE1>>, TRUE, Some("ts"), TRUE)
\* a view that fails after its first feature was evaluated
ViewBad == DerivedFeatureView("bad", Src, <<FE1, FJnokey>>, TRUE, Some("ts"), FALSE)
\* two views that join each other through the registry
ViewA == DerivedFeatureView("a", Src, <<FJb>>, TRUE, Some("ts"), FALSE)
ViewB == DerivedFeatureView("b", Src, <<FJa>>, TRUE, Some("ts"), FALSE)
ViewX == OtherDescriptor("x")

TableNames == {"s", "t", "u", "k", "v", "d", "n", "w", "jw", "un", "bad", "a", "b", "x"}

\* registry.get_features(name): the registry's contents
Registry(name) ==
    CASE name = "t" -> Items
      [] name = "u" -> Rates
      [] name = "w" -> ViewW
      [] name = "a" -> ViewA
      [] name = "b" -> ViewB
      [] OTHER -> Src

\* the arguments of build() the session draws from: every descriptor alone,
\* and some of them with keys or with a time range
BuildFeatures == {Src, SrcAlt, Items, Rates, ViewV, ViewVAlt, ViewD, ViewN, ViewW,
                  ViewWAlt, ViewJW, ViewS, ViewUnresolved, ViewBad, ViewA, ViewX}
BuildKeys == {Some(DataFrame(<<"user_id">>)), Some(DataFrame(<<"shop_id">>)),
              Some(KeyTable), Some(SrcAlt)}
BuildRanges == {<<Some("start"), None>>, <<None, Some("end")>>,
                <<Some("start"), Some("end")>>}
BuildArgs ==
    {<<f, None, None, None>> : f \in BuildFeatures}
    \cup {<<f, k, None, None>> : f \in {Src, ViewV}, k \in BuildKeys}
    \cup {<<f, None, r[1], r[2]>> : f \in {ViewV, Rates}, r \in BuildRanges}
    \cup {<<ViewD, Some(KeyTable), Some("start"), None>>}

\* the orders in which a set of table names may be iterated
HashOrders == {<<"a", "b", "t", "u", "w">>, <<"w", "u", "t", "b", "a">>}

----------------------------------------------------------------------------
(* _get_dependent_features *)

RECURSIVE DependentFeaturesLoop(_, _)
DependentFeaturesLoop(dependent, features) ==
    IF features = <<>> THEN dependent
    ELSE LET feature == Head(features)
             withInputs == AppendMissing(dependent, feature.input_features)
         IN  DependentFeaturesLoop(AppendMissing(withInputs, <<feature>>), Tail(features))

GetDependentFeatures(feature_view) ==
    DependentFeaturesLoop(<<>>, feature_view.features)

----------------------------------------------------------------------------
(* Outcomes, native tables and the collaborators that create them *)

\* The builder state threaded through the operations:
\*   [built_tables, nid, calls, gets, stores, dispatched]
\* An outcome is [b, err, table]; err = "" when the operation returned.
NoTable == [id |-> 0, op |-> "none", of |-> "", fields |-> <<>>]
Ok(b, table) == [b |-> b, err |-> "", table |-> table]
Raise(b, err) == [b |-> b, err |-> err, table |-> NoTable]

\* A call that creates a new native table object with the given schema.
NewTable(b, op, of, fields, args) ==
    LET t == [id |-> b.nid, op |-> op, of |-> of, fields |-> fields]
    IN  Ok([b EXCEPT !.nid = @ + 1,
                     !.calls = Append(@, [op |-> op, table |-> t, args |-> args])],
           t)

\* get_table_from_source: the scan of a source; the table carries the source's
\* fields and the internal event-time column
get_table_from_source(b, features) ==
    NewTable(b, "get_table_from_source", features.name,
             AppendMissing(features.fields, <<EVENT_TIME_ATTRIBUTE_NAME>>),
             [descriptor |-> features.name])

\* Table.select: fails when a selected column is not in the schema; op tells
\* the view's final projection ("select") from the projection of a right
\* table ("select_right")
TableSelect(b, table, of, fields, op) ==
    IF \E i \in 1..Len(fields) : ~Contains(table.fields, fields[i])
    THEN Raise(b, "ValidationException")
    ELSE NewTable(b, op, of, fields, [input |-> table.id])

\* evaluate_over_window_transform: one column per aggregation descriptor
evaluate_over_window_transform(b, table, of, window_descriptor, agg_descriptors) ==
    NewTable(b, "evaluate_over_window_transform", of,
             AppendMissing(table.fields,
                           [i \in 1..Len(agg_descriptors) |-> agg_descriptors[i].field_name]),
             [input |-> table.id, window |-> window_descriptor, aggs |-> agg_descriptors])

\* evaluate_sliding_window_transform: the (group keys, emission time)-keyed
\* aggregate table
evaluate_sliding_window_transform(b, table, of, window_descriptor, agg_descriptors) ==
    NewTable(b, "evaluate_sliding_window_transform", of,
             AppendMissing(AppendMissing(window_descriptor.group_by_keys,
                               [i \in 1..Len(agg_descriptors) |-> agg_descriptors[i].field_name]),
                           <<EVENT_TIME_ATTRIBUTE_NAME>>),
             [input |-> table.id, window |-> window_descriptor, aggs |-> agg_descriptors])

\* temporal_join: the left table with the right table's fields layered on
temporal_join(b, table, of, right_table, keys, field_descriptors) ==
    NewTable(b, "temporal_join", of,
             AppendMissing(table.fields,
                           [i \in 1..Len(field_descriptors) |-> field_descriptors[i].key]),
             [input |-> table.id, right |-> right_table.id, keys |-> keys,
              fields |-> field_descriptors])

\* full_outer_join_on_key_with_default_value
full_outer_join_on_key_with_default_value(b, left, of, right, join_keys, field_default_value) ==
    NewTable(b, "full_outer_join_on_key_with_default_value", of,
             AppendMissing(left.fields, right.fields),
             [input |-> left.id, right |-> right.id, keys |-> join_keys,
              defaults |-> field_default_value])

\* join_table_on_key: the rows of table whose key fields match a row of key_table
join_table_on_key(b, key_table, table, key_fields) ==
    NewTable(b, "join_table_on_key", "", table.fields,
             [input |-> table.id, right |-> key_table.id, keys |-> key_fields])

----------------------------------------------------------------------------
(* Insertion-ordered dictionaries: sequences of [key, value] *)

DictHas(d, k) == \E i \in 1..Len(d) : d[i].key = k
DictGet(d, k) == d[CHOOSE i \in 1..Len(d) : d[i].key = k].value
DictKeys(d) == [i \in 1..Len(d) |-> d[i].key]
\* d[k] = v: a new key goes last, an existing key keeps its position
DictSet(d, k, v) ==
    IF DictHas(d, k)
    THEN [i \in 1..Len(d) |-> IF d[i].key = k THEN [key |-> k, value |-> v] ELSE d[i]]
    ELSE Append(d, [key |-> k, value |-> v])
\* d.setdefault(k, v)
DictSetDefault(d, k, v) == IF DictHas(d, k) THEN d ELSE Append(d, [key |-> k, value |-> v])

RECURSIVE DictUpdate(_, _)
\* d.update(items), items an insertion-ordered dictionary
DictUpdate(d, items) ==
    IF items = <<>> THEN d
    ELSE DictUpdate(DictSet(d, Head(items).key, Head(items).value), Tail(items))

----------------------------------------------------------------------------
(* Steps shared by the two feature-view compilations *)

\* _evaluate_expression_transform: add_or_replace_columns of one column
EvaluateExpressionTransform(b, source_table, of, transform, result_field_name) ==
    NewTable(b, "evaluate_expression", of,
             AppendMissing(source_table.fields, <<result_field_name>>),
             [input |-> source_table.id, expr |-> transform.expr,
              name |-> result_field_name])

RECURSIVE FeatureOutputFields(_, _)
\* each declared feature's keys, then its name
FeatureOutputFields(output_fields, features) ==
    IF features = <<>> THEN output_fields
    ELSE FeatureOutputFields(
             AppendMissing(
                 AppendMissing(output_fields,
                               IF Head(features).keys = None THEN <<>>
                               ELSE Head(features).keys[1]),
                 <<Head(features).name>>),
             Tail(features))

\* FeatureView.get_output_fields: the source's fields when the view keeps them,
\* the keys and names of the view's declared features, the view's timestamp field
FeatureViewGetOutputFields(feature_view, source_fields) ==
    AppendMissing(
        FeatureOutputFields(IF feature_view.keep_source_fields THEN source_fields ELSE <<>>,
                            feature_view.features),
        feature_view.timestamp_field)

\* mutant: the internal event-time column is not force-included
GetOutputFields_NoEventTime(feature_view, source_fields) ==
    FeatureViewGetOutputFields(feature_view, source_fields)

\* _get_output_fields
GetOutputFields(feature_view, source_fields) ==
    LET output_fields == FeatureViewGetOutputFields(feature_view, source_fields)
    IN  IF ~Contains(output_fields, EVENT_TIME_ATTRIBUTE_NAME)
        THEN Append(output_fields, EVENT_TIME_ATTRIBUTE_NAME)
        ELSE output_fields

\* mutant: every windowed feature opens a batch of its own
WindowAggsAdd_NoBatching(window_agg_map, window_descriptor, feature) ==
    Append(window_agg_map,
           [key |-> window_descriptor, value |-> <<AggregationFieldDescriptor(feature)>>])

\* window_agg_map.setdefault(descriptor, []).append(
\*     AggregationFieldDescriptor.from_feature(feature))
WindowAggsAdd(window_agg_map, window_descriptor, feature) ==
    LET m == DictSetDefault(window_agg_map, window_descriptor, <<>>)
    IN  DictSet(m, window_descriptor,
                Append(DictGet(m, window_descriptor), AggregationFieldDescriptor(feature)))

\* the dispatcher records the features it did not skip
LogDispatch(b, of, feature) ==
    [b EXCEPT !.dispatched = Append(@, [of |-> of, feature |-> feature])]

----------------------------------------------------------------------------
(* _get_table_from_derived_feature_view: the dispatch loop and the batches *)

\* the table names of the view's join features, in the set's iteration order
JoinTableNames(feature_view) ==
    SeqFilterIn(hash_order,
                {f.transform.table_name :
                    f \in {g \in Range(feature_view.features) :
                              g.transform.type = "JoinTransform"}})

\* the update of right_tables for one join feature
RightTablesAdd(right_tables, feature, right_table_descriptor, right_timestamp_field) ==
    LET keys == feature.keys[1]
        batch == <<feature.transform.table_name, keys>>
        rt == DictSetDefault(right_tables, batch, <<>>)
        d1 == DictUpdate(DictGet(rt, batch),
                         [i \in 1..Len(keys) |->
                             [key |-> keys[i],
                              value |-> JoinFieldDescriptor_from_field_name(keys[i])]])
        d2 == DictSet(d1, right_timestamp_field,
                      JoinFieldDescriptor_from_field_name(right_timestamp_field))
        d3 == DictSet(d2, EVENT_TIME_ATTRIBUTE_NAME,
                      JoinFieldDescriptor_from_field_name(EVENT_TIME_ATTRIBUTE_NAME))
        d4 == DictSet(d3, feature.transform.feature_name,
                      JoinFieldDescriptor_from_table_descriptor_and_field_name(
                          right_table_descriptor, feature.transform.feature_name))
    IN  DictSet(rt, batch, d4)

\* the checks on a join feature's keys; "" when they pass
JoinKeysError(feature, source_table) ==
    IF feature.keys = None THEN "FeathubException: cannot join feature without key"
    ELSE IF ~(\A i \in 1..Len(feature.keys[1]) :
                 Contains(source_table.fields, feature.keys[1][i]))
    THEN "FeathubException: source table doesn't have the keys"
    ELSE ""

\* the loop state after a call that replaced the accumulating table
WithTable(ls, r) == [ls EXCEPT !.b = r.b, !.tmp_table = r.table]

\* the dispatch of a join feature that passed the checks on its keys
DerivedDispatchJoin(ls, descriptors_by_names, feature) ==
    IF ~DictHas(descriptors_by_names, feature.transform.table_name)
    THEN [ls EXCEPT !.err = "KeyError"]
    ELSE IF DictGet(descriptors_by_names, feature.transform.table_name).timestamp_field = None
    THEN [ls EXCEPT !.err = "FeathubException: cannot join without timestamp field"]
    ELSE [ls EXCEPT !.right_tables =
              RightTablesAdd(@, feature,
                  DictGet(descriptors_by_names, feature.transform.table_name),
                  DictGet(descriptors_by_names, feature.transform.table_name)
                      .timestamp_field[1])]

\* the dispatch of a feature that is not yet a column of the accumulating table
\* ls = [b, err, tmp_table, window_agg_map, right_tables]
DerivedDispatchKind(ls, feature_view, source_table, descriptors_by_names, feature) ==
    IF feature.transform.type = "ExpressionTransform"
    THEN WithTable(ls, EvaluateExpressionTransform(ls.b, ls.tmp_table, feature_view.name,
                                                   feature.transform, feature.name))
    ELSE IF feature.transform.type = "OverWindowTransform"
    THEN IF feature_view.timestamp_field = None
         THEN [ls EXCEPT !.err = "FeathubException: no timestamp field for OverWindowTransform"]
         ELSE [ls EXCEPT !.window_agg_map =
                             WindowAggsAdd(@, OverWindowDescriptor(feature.transform),
                                           feature)]
    ELSE IF feature.transform.type = "JoinTransform"
    THEN IF JoinKeysError(feature, source_table) # ""
         THEN [ls EXCEPT !.err = JoinKeysError(feature, source_table)]
         ELSE DerivedDispatchJoin(ls, descriptors_by_names, feature)
    ELSE [ls EXCEPT !.err = "FeathubTransformationException: unsupported transformation type"]

\* one iteration of the loop over dependent_features
DerivedDispatch(ls, feature_view, source_table, descriptors_by_names, feature) ==
    IF Contains(ls.tmp_table.fields, feature.name) THEN ls
    ELSE DerivedDispatchKind([ls EXCEPT !.b = LogDispatch(@, feature_view.name, feature)],
                             feature_view, source_table, descriptors_by_names, feature)

RECURSIVE DerivedDispatchLoop(_, _, _, _, _)
DerivedDispatchLoop(ls, feature_view, source_table, descriptors_by_names, features) ==
    IF features = <<>> \/ ls.err # "" THEN ls
    ELSE DerivedDispatchLoop(
             DerivedDispatch(ls, feature_view, source_table, descriptors_by_names,
                             Head(features)),
             feature_view, source_table, descriptors_by_names, Tail(features))

RECURSIVE OverWindowLoop(_, _, _)
\* for over_window_descriptor, agg_descriptor in window_agg_map.items():
\*     tmp_table = evaluate_over_window_transform(tmp_table, ..)
\* r: the outcome holding the accumulating table
OverWindowLoop(r, of, window_agg_map) ==
    IF window_agg_map = <<>> THEN r
    ELSE OverWindowLoop(
             evaluate_over_window_transform(r.b, r.table, of, Head(window_agg_map).key,
                                            Head(window_agg_map).value),
             of, Tail(window_agg_map))

\* tmp_table = temporal_join(t_env, tmp_table, right_table, keys, descriptors),
\* sel the outcome of the projection of the right table
TemporalJoinOne(sel, tmp_table, of, keys, descriptors) ==
    IF sel.err # "" THEN sel
    ELSE temporal_join(sel.b, tmp_table, of, sel.table, keys, descriptors)

RECURSIVE TemporalJoinLoop(_, _, _, _)
\* for (right_table_name, keys), descriptors in right_tables.items()
\* r: the outcome holding the accumulating table
TemporalJoinLoop(r, of, table_by_names, right_tables) ==
    IF right_tables = <<>> \/ r.err # "" THEN r
    ELSE TemporalJoinLoop(
             TemporalJoinOne(
                 TableSelect(r.b, DictGet(table_by_names, Head(right_tables).key[1]), of,
                             DictKeys(Head(right_tables).value), "select_right"),
                 r.table, of, Head(right_tables).key[2], Head(right_tables).value),
             of, table_by_names, Tail(right_tables))

----------------------------------------------------------------------------
(* _get_table and the two feature-view compilations *)

RECURSIVE GetTable(_, _, _)

\* descriptors_by_names[name] = descriptor; table_by_names[name] = <table>,
\* r the outcome of self._get_table(descriptor)
ResolveOne(rs, name, descriptor, r) ==
    IF r.err # "" THEN [rs EXCEPT !.b = r.b, !.err = r.err]
    ELSE [rs EXCEPT !.b = r.b,
                    !.descriptors_by_names = DictSet(@, name, descriptor),
                    !.table_by_names = DictSet(@, name, r.table)]

RECURSIVE ResolveJoinTables(_, _, _)
\* for name in table_names: descriptor = registry.get_features(name); ..
\* rs = [b, err, table_by_names, descriptors_by_names]
ResolveJoinTables(rs, names, depth) ==
    IF names = <<>> \/ rs.err # "" THEN rs
    ELSE ResolveJoinTables(
             ResolveOne(rs, Head(names), Registry(Head(names)),
                        GetTable(rs.b, Registry(Head(names)), depth + 1)),
             Tail(names), depth)

\* output_fields = self._get_output_fields(..); return tmp_table.select(..)
ProjectOutput(r, feature_view, source_fields) ==
    IF r.err # "" THEN r
    ELSE TableSelect(r.b, r.table, feature_view.name,
                     GetOutputFields(feature_view, source_fields), "select")

\* the batches and the projection, after the dispatch loop ended in ls
DerivedAfterDispatch(ls, feature_view, source_table, table_by_names) ==
    IF ls.err # "" THEN Raise(ls.b, ls.err)
    ELSE ProjectOutput(
             TemporalJoinLoop(
                 OverWindowLoop(Ok(ls.b, ls.tmp_table), feature_view.name,
                                ls.window_agg_map),
                 feature_view.name, table_by_names, ls.right_tables),
             feature_view, source_table.fields)

\* the dispatch loop, after the join tables were resolved in rs
DerivedAfterResolve(rs, feature_view, source_table) ==
    IF rs.err # "" THEN Raise(rs.b, rs.err)
    ELSE DerivedAfterDispatch(
             DerivedDispatchLoop([b |-> rs.b, err |-> "", tmp_table |-> source_table,
                                  window_agg_map |-> <<>>, right_tables |-> <<>>],
                                 feature_view, source_table, rs.descriptors_by_names,
                                 GetDependentFeatures(feature_view)),
             feature_view, source_table, rs.table_by_names)

\* the rest of the compilation, r1 the outcome of self._get_table(source)
DerivedAfterSource(r1, feature_view, depth) ==
    IF r1.err # "" THEN r1
    ELSE DerivedAfterResolve(
             ResolveJoinTables([b |-> r1.b, err |-> "", table_by_names |-> <<>>,
                                descriptors_by_names |-> <<>>],
                               JoinTableNames(feature_view), depth),
             feature_view, r1.table)

GetTableFromDerivedFeatureView(b, feature_view, depth) ==
    DerivedAfterSource(GetTable(b, feature_view.source, depth + 1), feature_view, depth)

\* the dispatch of a feature that is not yet a column of the accumulating table
\* ls = [b, err, tmp_table, window_agg_map]
SlidingDispatchKind(ls, feature_view, feature) ==
    IF feature.transform.type = "ExpressionTransform"
    THEN WithTable(ls, EvaluateExpressionTransform(ls.b, ls.tmp_table, feature_view.name,
                                                   feature.transform, feature.name))
    ELSE IF feature.transform.type = "SlidingWindowTransform"
    THEN IF feature_view.timestamp_field = None
         THEN [ls EXCEPT !.err = "FeathubException: no timestamp field for SlidingWindowTransform"]
         ELSE [ls EXCEPT !.window_agg_map =
                             WindowAggsAdd(@, SlidingWindowDescriptor(feature.transform),
                                           feature)]
    ELSE [ls EXCEPT !.err = "FeathubTransformationException: unsupported transformation type"]

\* one iteration of the sliding view's loop over dependent_features
SlidingDispatch(ls, feature_view, feature) ==
    IF Contains(ls.tmp_table.fields, feature.name) THEN ls
    ELSE SlidingDispatchKind([ls EXCEPT !.b = LogDispatch(@, feature_view.name, feature)],
                             feature_view, feature)

RECURSIVE SlidingDispatchLoop(_, _, _)
SlidingDispatchLoop(ls, feature_view, features) ==
    IF features = <<>> \/ ls.err # "" THEN ls
    ELSE SlidingDispatchLoop(SlidingDispatch(ls, feature_view, Head(features)),
                             feature_view, Tail(features))

\* mutant: the default map holds the defaults of the newly joined side only
DefaultsAdd_OnlyCurrent(field_default_value, agg_descriptors) ==
    DictUpdate(<<>>,
               [i \in 1..Len(agg_descriptors) |->
                   [key |-> agg_descriptors[i].field_name,
                    value |-> get_default_value_and_type(agg_descriptors[i])]])

\* for agg_descriptor in agg_descriptors:
\*     field_default_value[agg_descriptor.field_name] = get_default_value_and_type(..)
DefaultsAdd(field_default_value, agg_descriptors) ==
    DictUpdate(field_default_value,
               [i \in 1..Len(agg_descriptors) |->
                   [key |-> agg_descriptors[i].field_name,
                    value |-> get_default_value_and_type(agg_descriptors[i])]])

\* the merge state after a call whose outcome j holds the new agg_table
SlidingMerged(j, defaults) ==
    [b |-> j.b, agg_table |-> Some(j.table), field_default_value |-> defaults]

\* if agg_table is None: agg_table = tmp_agg_table
\* else: agg_table = full_outer_join_on_key_with_default_value(
\*           agg_table, tmp_agg_table, join_keys, field_default_value)
\* m = [b, agg_table (optional), field_default_value]; r the outcome holding
\* tmp_agg_table; defaults the default map after this descriptor's fields
SlidingMergeOne(m, r, of, window_descriptor, defaults) ==
    IF m.agg_table = None THEN SlidingMerged(r, defaults)
    ELSE SlidingMerged(
             full_outer_join_on_key_with_default_value(
                 r.b, m.agg_table[1], of, r.table,
                 Append(window_descriptor.group_by_keys, EVENT_TIME_ATTRIBUTE_NAME),
                 defaults),
             defaults)

RECURSIVE SlidingMergeLoop(_, _, _, _)
\* for window_descriptor, agg_descriptors in sliding_window_agg_map.items()
SlidingMergeLoop(m, tmp_table, of, window_agg_map) ==
    IF window_agg_map = <<>> THEN m
    ELSE SlidingMergeLoop(
             SlidingMergeOne(m,
                 evaluate_sliding_window_transform(m.b, tmp_table, of,
                     Head(window_agg_map).key, Head(window_agg_map).value),
                 of, Head(window_agg_map).key,
                 DefaultsAdd(m.field_default_value, Head(window_agg_map).value)),
             tmp_table, of, Tail(window_agg_map))

\* the timestamp field derived from the event time, by the view's format
AddTimestampField(b, tmp_table, feature_view) ==
    IF feature_view.timestamp_field = None THEN Ok(b, tmp_table)
    ELSE NewTable(b, "add_columns", feature_view.name,
                  Append(tmp_table.fields, feature_view.timestamp_field[1]),
                  [input |-> tmp_table.id,
                   expr |-> IF feature_view.timestamp_format = "epoch"
                            THEN "UNIX_TIMESTAMP" ELSE "DATE_FORMAT"])

\* if agg_table is not None: tmp_table = agg_table; then the timestamp field
\* and the projection
SlidingAfterMerge(m, tmp_table, feature_view, source_fields) ==
    ProjectOutput(
        AddTimestampField(m.b,
                          IF m.agg_table # None THEN m.agg_table[1] ELSE tmp_table,
                          feature_view),
        feature_view, source_fields)

\* the merge of the aggregate tables, after the dispatch loop ended in ls
SlidingAfterDispatch(ls, feature_view, source_table) ==
    IF ls.err # "" THEN Raise(ls.b, ls.err)
    ELSE SlidingAfterMerge(
             SlidingMergeLoop([b |-> ls.b, agg_table |-> None,
                               field_default_value |-> <<>>],
                              ls.tmp_table, feature_view.name, ls.window_agg_map),
             ls.tmp_table, feature_view, source_table.fields)

\* the rest of the compilation, r1 the outcome of self._get_table(source)
SlidingAfterSource(r1, feature_view) ==
    IF r1.err # "" THEN r1
    ELSE SlidingAfterDispatch(
             SlidingDispatchLoop([b |-> r1.b, err |-> "", tmp_table |-> r1.table,
                                  window_agg_map |-> <<>>],
                                 feature_view, GetDependentFeatures(feature_view)),
             feature_view, r1.table)

GetTableFromSlidingFeatureView(b, feature_view, depth) ==
    SlidingAfterSource(GetTable(b, feature_view.source, depth + 1), feature_view)

\* the ghost record of one _get_table request
LogGet(b, features, kind, table) ==
    [b EXCEPT !.gets = Append(@, [name |-> features.name, desc |-> features,
                                  kind |-> kind, table |-> table,
                                  cached |-> b.built_tables[features.name],
                                  nstores |-> Len(b.stores),
                                  ncalls |-> Len(b.calls)])]

\* the outcome of a request for a cached name, recorded
LogCached(r, features) ==
    [r EXCEPT !.b = LogGet(@, features, IF r.err # "" THEN "conflict" ELSE "hit",
                           r.table)]

\* mutant: a cached name is answered without comparing the descriptors
CacheHit_NoCompare(b, features, entry) ==
    Ok(b, entry.table)

\* features.name in self._built_tables: the conflict check and the cached table
CacheHit(b, features, entry) ==
    IF features # entry.desc
    THEN Raise(b, "FeathubException: different TableDescriptor with same name")
    ELSE Ok(b, entry.table)

\* the cache after self._built_tables[features.name] = (features, table)
Stored(b, features, table) ==
    [b EXCEPT !.built_tables[features.name] = Some([desc |-> features, table |-> table]),
              !.stores = Append(@, [name |-> features.name, desc |-> features,
                                    table |-> table])]

\* mutant: the entry is written even when the compilation raised
StoreBuilt_EvenOnError(features, r) ==
    IF r.err # "" THEN Raise(Stored(r.b, features, r.table), r.err)
    ELSE Ok(Stored(r.b, features, r.table), r.table)

\* self._built_tables[features.name] = (features, <compiled table>), the
\* assignment made once the compilation r returned; then
\* return self._built_tables[features.name][1]
StoreBuilt(features, r) ==
    IF r.err # "" THEN r
    ELSE Ok(Stored(r.b, features, r.table),
            Stored(r.b, features, r.table).built_tables[features.name][1].table)

\* the dispatch on the descriptor's type, for a name that is not cached
CompileByType(b, features, depth) ==
    IF features.type = "FeatureTable"
    THEN StoreBuilt(features, get_table_from_source(b, features))
    ELSE IF features.type = "DerivedFeatureView"
    THEN StoreBuilt(features, GetTableFromDerivedFeatureView(b, features, depth))
    ELSE IF features.type = "SlidingFeatureView"
    THEN StoreBuilt(features, GetTableFromSlidingFeatureView(b, features, depth))
    ELSE Raise(b, "FeathubException: unsupported type")

GetTable(b, features, depth) ==
    IF depth > MaxDepth THEN Raise(b, "RecursionError")
    ELSE IF features.type = "DataFrame"
    THEN NewTable(b, "from_pandas", "", features.columns, [columns |-> features.columns])
    ELSE IF b.built_tables[features.name] # None
    THEN LogCached(CacheHit(b, features, b.built_tables[features.name][1]), features)
    ELSE CompileByType(LogGet(b, features, "miss", NoTable), features, depth)

----------------------------------------------------------------------------
(* build and its post-processing *)

\* the check of the key fields and the join, rk the outcome of
\* self._get_table(keys)
FilterJoin(rk, table) ==
    IF rk.err # "" THEN rk
    ELSE IF \E i \in 1..Len(rk.table.fields) :
                ~Contains(table.fields, rk.table.fields[i])
    THEN Raise(rk.b, "FeathubException: given key not in the table fields")
    ELSE join_table_on_key(rk.b, rk.table, table, rk.table.fields)

\* _filter_table_by_keys, for keys that are not None
FilterTableByKeys(b, table, keys) ==
    FilterJoin(GetTable(b, keys, 1), table)

\* table.filter(event time < end_datetime), if end_datetime is given
RangeEnd(r, end_datetime) ==
    IF end_datetime # None
    THEN NewTable(r.b, "filter", "", r.table.fields,
                  [input |-> r.table.id, bound |-> "end"])
    ELSE r

\* _range_table_by_time: one filter per bound that is given
RangeTableByTime(b, table, start_datetime, end_datetime) ==
    RangeEnd(IF start_datetime # None
             THEN NewTable(b, "filter", "", table.fields,
                           [input |-> table.id, bound |-> "start"])
             ELSE Ok(b, table),
             end_datetime)

\* if EVENT_TIME_ATTRIBUTE_NAME in the schema: table.drop_columns(..)
DropEventTime(b, table) ==
    IF Contains(table.fields, EVENT_TIME_ATTRIBUTE_NAME)
    THEN NewTable(b, "drop_columns", "",
                  SeqFilterIn(table.fields, Range(table.fields) \ {EVENT_TIME_ATTRIBUTE_NAME}),
                  [input |-> table.id])
    ELSE Ok(b, table)

\* if keys is not None: table = self._filter_table_by_keys(table, keys)
BuildFilter(r, keys) ==
    IF r.err # "" \/ keys = None THEN r
    ELSE FilterTableByKeys(r.b, r.table, keys[1])

\* if start_datetime is not None or end_datetime is not None: ..
BuildRange(r, features, start_datetime, end_datetime) ==
    IF r.err # "" \/ (start_datetime = None /\ end_datetime = None) THEN r
    ELSE IF features.timestamp_field = None
    THEN Raise(r.b, "FeathubException: feature is missing timestamp_field")
    ELSE RangeTableByTime(r.b, r.table, start_datetime, end_datetime)

\* the drop of the event-time column and the return
BuildReturn(r) ==
    IF r.err # "" THEN r ELSE DropEventTime(r.b, r.table)

Build(b, features, keys, start_datetime, end_datetime) ==
    IF IsFeatureView(features) /\ features.unresolved
    THEN Raise(b, "FeathubException: unresolved FeatureView")
    ELSE BuildReturn(BuildRange(BuildFilter(GetTable(b, features, 1), keys),
                                features, start_datetime, end_datetime))

----------------------------------------------------------------------------
(* The session: a sequence of build() calls on one FlinkTableBuilder *)

NoResult == [err |-> "", table |-> NoTable]

\* the builder state at the start of a call
Builder == [built_tables |-> built_tables, nid |-> nid, calls |-> <<>>, gets |-> <<>>,
            stores |-> stores, dispatched |-> <<>>]

\* FlinkTableBuilder.__init__
InitBuilder ==
    /\ built_tables = [n \in TableNames |-> None]
    /\ hash_order \in HashOrders
    /\ nid = 1
    /\ nbuilds = 0
    /\ features_arg = None
    /\ result = NoResult
    /\ calls = <<>>
    /\ gets = <<>>
    /\ stores = <<>>
    /\ dispatched = <<>>
    /\ built_before = [n \in TableNames |-> None]
    /\ dependent_features = <<>>

Init ==
    /\ InitBuilder
    /\ view = None
    /\ phase = "session"

\* the effect of an outcome r of a call on the state
Commit(r) ==
    /\ built_tables' = r.b.built_tables
    /\ nid' = r.b.nid
    /\ calls' = r.b.calls
    /\ gets' = r.b.gets
    /\ stores' = r.b.stores
    /\ dispatched' = r.b.dispatched
    /\ result' = [err |-> r.err, table |-> r.table]
    /\ built_before' = built_tables

BuildCall(features, keys, start_datetime, end_datetime) ==
    /\ phase = "session"
    /\ nbuilds < MaxBuilds
    /\ Commit(Build(Builder, features, keys, start_datetime, end_datetime))
    /\ nbuilds' = nbuilds + 1
    /\ features_arg' = Some(features)
    /\ UNCHANGED <<hash_order, view, phase, dependent_features>>

Next ==
    \E args \in BuildArgs : BuildCall(args[1], args[2], args[3], args[4])

Spec == Init /\ [][Next]_vars

----------------------------------------------------------------------------
(* The compilation of one drawn feature view on a fresh builder *)

\* the sequences of at most n distinct elements of S
SeqsNoRep(S, n) ==
    {s \in UNION {[1..k -> S] : k \in 0..n} :
        \A i, j \in 1..Len(s) : i # j => s[i] # s[j]}

DrawnViews ==
    {DerivedFeatureView("v", Src, fs, keep, ts, FALSE) :
        fs \in SeqsNoRep(PoolExpression, MaxDeclared)
               \cup SeqsNoRep(PoolWindow, MaxDeclared)
               \cup SeqsNoRep(PoolJoin, MaxDeclared),
        keep \in BOOLEAN, ts \in {None, Some("ts")}}
    \cup
    {SlidingFeatureView("w", Src, fs, ts, fmt) :
        fs \in SeqsNoRep(PoolSliding, MaxDeclared),
        ts \in {None, Some("window_time")}, fmt \in {"epoch", "%Y-%m-%d"}}

InitView ==
    /\ InitBuilder
    /\ view \in {Some(v) : v \in DrawnViews}
    /\ phase = "init"

\* _get_dependent_features(view)
ResolveView ==
    /\ phase = "init"
    /\ dependent_features' = GetDependentFeatures(view[1])
    /\ phase' = "resolved"
    /\ UNCHANGED <<built_tables, hash_order, nid, nbuilds, features_arg, result, calls,
                   gets, stores, built_before, view, dispatched>>

\* _get_table(view)
CompileView ==
    /\ phase = "resolved"
    /\ Commit(GetTable(Builder, view[1], 1))
    /\ phase' = "compiled"
    /\ UNCHANGED <<hash_order, nbuilds, features_arg, view, dependent_features>>

NextView == ResolveView \/ CompileView

ViewSpec == InitView /\ [][NextView]_vars

----------------------------------------------------------------------------
(* Properties of _get_dependent_features (checked under ViewSpec) *)

\* the declared features of the drawn view
Declared == view[1].features

RECURSIVE TransitiveInputs(_)
\* the inputs of a feature, the inputs of its inputs, and so on
TransitiveInputs(feature) ==
    Range(feature.input_features)
    \cup UNION {TransitiveInputs(g) : g \in Range(feature.input_features)}

\* C3: in the sequence returned by _get_dependent_features, the input_features
\* of every declared feature stand at an earlier position than the feature,
\* and every feature of the sequence stands in it exactly once.
C3_InputsBeforeFeature ==
    phase # "init" =>
        /\ \A i \in 1..Len(dependent_features) :
               Count(dependent_features, dependent_features[i]) = 1
        /\ \A f \in Range(Declared) :
               /\ Contains(dependent_features, f)
               /\ \A g \in Range(f.input_features) :
                      /\ Contains(dependent_features, g)
                      /\ IndexOf(dependent_features, g) < IndexOf(dependent_features, f)

\* C4: the sequence returned by _get_dependent_features holds every declared
\* feature and, for every declared feature, all of its transitive inputs.
C4_TransitiveInputsIncluded ==
    phase # "init" =>
        \A f \in Range(Declared) :
            /\ Contains(dependent_features, f)
            /\ \A g \in TransitiveInputs(f) : Contains(dependent_features, g)

----------------------------------------------------------------------------
(* Properties of the compilation of one view (checked under ViewSpec) *)

RECURSIVE CallsOf(_, _)
\* the calls of cs whose operation is in ops, in order
CallsOf(cs, ops) ==
    IF cs = <<>> THEN <<>>
    ELSE IF Head(cs).op \in ops THEN <<Head(cs)>> \o CallsOf(Tail(cs), ops)
    ELSE CallsOf(Tail(cs), ops)

\* the table a call of the last build created, by its identity
TableById(id) == (CHOOSE c \in Range(calls) : c.table.id = id).table
\* the call that created the table with this identity
CallById(id) == CHOOSE c \in Range(calls) : c.table.id = id

\* the features the dispatch loop did not skip, in order
DispatchedFeatures == [i \in 1..Len(dispatched) |-> dispatched[i].feature]

IsWindowed(f) ==
    f.transform.type \in {"OverWindowTransform", "SlidingWindowTransform"}
WindowDescriptorOf(f) ==
    IF f.transform.type = "OverWindowTransform" THEN OverWindowDescriptor(f.transform)
    ELSE SlidingWindowDescriptor(f.transform)

RECURSIVE AggsFor(_, _)
\* the aggregation descriptors of the windowed features of fs with window d
AggsFor(fs, d) ==
    IF fs = <<>> THEN <<>>
    ELSE IF IsWindowed(Head(fs)) /\ WindowDescriptorOf(Head(fs)) = d
    THEN <<AggregationFieldDescriptor(Head(fs))>> \o AggsFor(Tail(fs), d)
    ELSE AggsFor(Tail(fs), d)

WindowOps == {"evaluate_over_window_transform", "evaluate_sliding_window_transform"}
WindowCalls == CallsOf(calls, WindowOps)
TemporalJoinCalls == CallsOf(calls, {"temporal_join"})
SlidingCalls == CallsOf(calls, {"evaluate_sliding_window_transform"})
OuterJoinCalls == CallsOf(calls, {"full_outer_join_on_key_with_default_value"})

\* the dispatch loop of the drawn view ended without raising, so that the
\* window batches were applied
WindowBatchesApplied ==
    phase = "compiled" /\ result.err \in {"", "ValidationException"}

\* C5: the window-aggregation calls issued for a view are one per distinct
\* window descriptor among the dispatched (not skipped) windowed features,
\* and the call for a descriptor receives exactly the aggregation descriptors
\* of the dispatched features with that descriptor.
C5_OneCallPerWindow ==
    WindowBatchesApplied =>
        LET D == {WindowDescriptorOf(f) :
                     f \in {g \in Range(DispatchedFeatures) : IsWindowed(g)}}
        IN  /\ Len(WindowCalls) = Cardinality(D)
            /\ \A d \in D :
                   \E i \in 1..Len(WindowCalls) :
                       /\ WindowCalls[i].args.window = d
                       /\ WindowCalls[i].args.aggs = AggsFor(DispatchedFeatures, d)
                       /\ WindowCalls[i].op =
                              IF view[1].type = "DerivedFeatureView"
                              THEN "evaluate_over_window_transform"
                              ELSE "evaluate_sliding_window_transform"

\* a view compiled with two window descriptors, one of them shared by two
\* dispatched features
C5_Witness ==
    /\ phase = "compiled"
    /\ result.err = ""
    /\ Len(WindowCalls) = 2
    /\ \E i \in 1..Len(WindowCalls) : Len(WindowCalls[i].args.aggs) = 2

\* the dispatched join features
DispatchedJoins == {f \in Range(DispatchedFeatures) : f.transform.type = "JoinTransform"}

\* the right fields a batch (table_name, keys) must project
BatchFields(table_name, keys) ==
    Range(keys) \cup {Registry(table_name).timestamp_field[1], EVENT_TIME_ATTRIBUTE_NAME}
    \cup {f.transform.feature_name :
             f \in {g \in DispatchedJoins :
                       g.transform.table_name = table_name /\ g.keys[1] = keys}}

\* C6: in a compiled derived view, the dispatched join features with the
\* same (table_name, keys) are served by exactly one temporal join; its right
\* table is the table of that name projected to each distinct right field
\* exactly once; and every requested value field has its pulled-value
\* descriptor in the call, whatever the order of dispatch was.
C6_OneJoinPerBatch ==
    (phase = "compiled" /\ result.err = "") =>
        /\ Len(TemporalJoinCalls) =
               Cardinality({<<f.transform.table_name, f.keys[1]>> : f \in DispatchedJoins})
        /\ \A f \in DispatchedJoins :
               \E i \in 1..Len(TemporalJoinCalls) :
                   LET c == TemporalJoinCalls[i]
                       right == CallById(c.args.right)
                   IN  /\ c.args.keys = f.keys[1]
                       /\ right.op = "select_right"
                       /\ TableById(right.args.input).of = f.transform.table_name
                       /\ right.table.fields = DictKeys(c.args.fields)
                       /\ Range(right.table.fields) =
                              BatchFields(f.transform.table_name, f.keys[1])
                       /\ \A x \in Range(right.table.fields) :
                              Count(right.table.fields, x) = 1
                       /\ DictGet(c.args.fields, f.transform.feature_name) =
                              JoinFieldDescriptor_from_table_descriptor_and_field_name(
                                  Registry(f.transform.table_name),
                                  f.transform.feature_name)

\* the schema of the source table of the drawn view
SourceFields == calls[1].table.fields

\* the keys of a join feature are not declared, empty, or not all columns of
\* the source table
BadJoinKeys(f) ==
    \/ f.keys = None
    \/ f.keys[1] = <<>>
    \/ \E i \in 1..Len(f.keys[1]) : ~Contains(SourceFields, f.keys[1][i])

\* C7: a dispatched join feature whose keys are not declared, are empty, or
\* hold a name that is not a column of the left table makes the compilation
\* fail with the error of the keys check, and no temporal join is issued.
C7_BadJoinKeysRejected ==
    phase = "compiled" =>
        \A f \in DispatchedJoins :
            BadJoinKeys(f) =>
                /\ result.err \in {"FeathubException: cannot join feature without key",
                                   "FeathubException: source table doesn't have the keys"}
                /\ TemporalJoinCalls = <<>>

\* C8: the aggregate tables of the k sliding-window descriptors of a view are
\* merged by k-1 chained full outer joins on (group_by_keys, event time), and
\* the default map of every join holds the typed default of every aggregate
\* field of the tables joined so far, the newly joined one included.
C8_DefaultsAtEveryJoin ==
    (WindowBatchesApplied /\ view[1].type = "SlidingFeatureView") =>
        /\ Len(SlidingCalls) =
               Cardinality({WindowDescriptorOf(f) :
                               f \in {g \in Range(DispatchedFeatures) : IsWindowed(g)}})
        /\ Len(OuterJoinCalls) = IF Len(SlidingCalls) = 0 THEN 0 ELSE Len(SlidingCalls) - 1
        /\ \A i \in 1..Len(OuterJoinCalls) :
               LET j == OuterJoinCalls[i]
               IN  /\ j.args.right = SlidingCalls[i + 1].table.id
                   /\ j.args.input = IF i = 1 THEN SlidingCalls[1].table.id
                                     ELSE OuterJoinCalls[i - 1].table.id
                   /\ j.args.keys = Append(SlidingCalls[i + 1].args.window.group_by_keys,
                                           EVENT_TIME_ATTRIBUTE_NAME)
                   /\ \A n \in 1..(i + 1) :
                          \A k \in 1..Len(SlidingCalls[n].args.aggs) :
                              LET agg == SlidingCalls[n].args.aggs[k]
                              IN  /\ DictHas(j.args.defaults, agg.field_name)
                                  /\ DictGet(j.args.defaults, agg.field_name) =
                                         get_default_value_and_type(agg)

\* a sliding view compiled with three window descriptors, merged by two joins
C8_Witness ==
    /\ phase = "compiled"
    /\ result.err = ""
    /\ view[1].type = "SlidingFeatureView"
    /\ Len(OuterJoinCalls) = 2

----------------------------------------------------------------------------
(* Properties of a session of build() calls (checked under Spec) *)

ConflictError == "FeathubException: different TableDescriptor with same name"
IsViewType(desc) == desc.type \in {"DerivedFeatureView", "SlidingFeatureView"}

\* the first assignment the session made to the cache entry of a name
FirstStore(name) ==
    stores[CHOOSE i \in 1..Len(stores) :
               /\ stores[i].name = name
               /\ \A j \in 1..(i - 1) : stores[j].name # name]

\* C1: a request for a cached name with an equal descriptor is answered with
\* the table the first compilation of that name stored, and a name is
\* compiled (its cache entry assigned) at most once in a session.
C1_CompiledOncePerName ==
    /\ \A i \in 1..Len(gets) :
           (gets[i].cached # None /\ gets[i].cached[1].desc = gets[i].desc) =>
               /\ gets[i].kind = "hit"
               /\ gets[i].table = FirstStore(gets[i].name).table
    /\ \A i, j \in 1..Len(stores) : stores[i].name = stores[j].name => i = j

\* C2: a request, at any nesting depth, for a cached name with a descriptor
\* that differs from the cached one raises the conflict error; the error is
\* what build raises, nothing is requested, compiled or stored after it, and
\* the name still maps to the entry it had.
C2_ConflictLeavesCache ==
    \A i \in 1..Len(gets) :
        (gets[i].cached # None /\ gets[i].cached[1].desc # gets[i].desc) =>
            /\ gets[i].kind = "conflict"
            /\ i = Len(gets)
            /\ result = [err |-> ConflictError, table |-> NoTable]
            /\ Len(calls) = gets[i].ncalls
            /\ Len(stores) = gets[i].nstores
            /\ built_tables[gets[i].name] = gets[i].cached
            /\ \A n \in TableNames :
                   built_tables[n] # built_before[n] =>
                       \E k \in 1..gets[i].nstores : stores[k].name = n

\* a conflict met below the top-level request, after tables were compiled
C2_Witness ==
    /\ Len(gets) > 1
    /\ gets[Len(gets)].kind = "conflict"
    /\ gets[Len(gets)].ncalls > 0
    /\ result.err = ConflictError

\* C9: every table cached for a derived or sliding view has the internal
\* event-time column, also when a later build gets it from the cache as a
\* source or join target; the table build returns never has it, and no cached
\* table is the result of dropping it.
C9_EventTimeOnlyDroppedOnReturn ==
    /\ \A n \in TableNames :
           (built_tables[n] # None /\ IsViewType(built_tables[n][1].desc)) =>
               /\ Contains(built_tables[n][1].table.fields, EVENT_TIME_ATTRIBUTE_NAME)
               /\ built_tables[n][1].table.op # "drop_columns"
    /\ \A i \in 1..Len(gets) :
           (gets[i].kind = "hit" /\ IsViewType(gets[i].desc)) =>
               Contains(gets[i].table.fields, EVENT_TIME_ATTRIBUTE_NAME)
    /\ (features_arg # None /\ result.err = "") =>
           ~Contains(result.table.fields, EVENT_TIME_ATTRIBUTE_NAME)

\* a build that returned a table after it got a view's table from the cache
\* as the source of another view
C9_Witness ==
    /\ result.err = ""
    /\ features_arg # None
    /\ \E i \in 2..Len(gets) : gets[i].kind = "hit" /\ IsViewType(gets[i].desc)
    /\ \E c \in Range(calls) : c.op = "drop_columns" /\ c.table = result.table

\* C10: a build that raises returns no table; and every cache entry maps its
\* name to the final table of a compilation of its descriptor that returned:
\* the scan of a feature table or the output projection of a view, either
\* cached before this build or created by a call of this build.
C10_AllOrNothing ==
    /\ result.err # "" => result.table = NoTable
    /\ result.err = "" /\ features_arg # None => result.table # NoTable
    /\ \A n \in TableNames :
           built_tables[n] # None =>
               LET e == built_tables[n][1]
               IN  /\ e.desc.name = n
                   /\ e.table # NoTable
                   /\ e.table.of = n
                   /\ e.table.op = IF IsViewType(e.desc) THEN "select"
                                   ELSE "get_table_from_source"
                   /\ \E i \in 1..Len(stores) :
                          stores[i] = [name |-> n, desc |-> e.desc, table |-> e.table]
                   /\ \/ built_tables[n] = built_before[n]
                      \/ \E c \in Range(calls) : c.table = e.table

\* a build of a view that raised after its source was compiled: the source
\* stays cached, the view is not
C10_Witness ==
    /\ features_arg # None
    /\ IsViewType(features_arg[1])
    /\ result.err # ""
    /\ Len(calls) > 0
    /\ built_tables[features_arg[1].name] = None
    /\ \E n \in TableNames : built_tables[n] # None /\ built_before[n] = None

\* request j asks again for the descriptor of request i while the compilation
\* that request i started has not stored its table yet
RevisitsInProgress(i, j) ==
    /\ i < j
    /\ gets[i].kind = "miss"
    /\ gets[j].kind = "miss"
    /\ gets[i].desc = gets[j].desc
    /\ \A k \in (gets[i].nstores + 1)..gets[j].nstores : stores[k].name # gets[i].name

\* C11: a build whose join targets form a cycle through the registry ends
\* with a cycle error at the first request for a descriptor that is still
\* being compiled: nothing is requested after that request, and the nesting
\* of the requests never grows until the interpreter's recursion limit ends it.
C11_CycleErrorOnRevisit ==
    /\ result.err # "RecursionError"
    /\ \A i, j \in 1..Len(gets) :
           RevisitsInProgress(i, j) =>
               /\ j = Len(gets)
               /\ result.err = "CycleError"

----------------------------------------------------------------------------
(* The order in which a derived view's columns are produced (ViewSpec) *)

\* call c of the last compilation adds the column of feature f to the
\* accumulating table
ProducesColumn(c, f) ==
    \/ /\ c.op = "evaluate_expression"
       /\ f.transform.type = "ExpressionTransform"
       /\ c.args.name = f.name
    \/ /\ c.op = "evaluate_over_window_transform"
       /\ f.transform.type = "OverWindowTransform"
       /\ \E k \in 1..Len(c.args.aggs) : c.args.aggs[k] = AggregationFieldDescriptor(f)
    \/ /\ c.op = "temporal_join"
       /\ f.transform.type = "JoinTransform"
       /\ c.args.keys = f.keys[1]
       /\ TableById(CallById(c.args.right).args.input).of = f.transform.table_name
       /\ DictHas(c.args.fields, f.transform.feature_name)

\* C12: in the compilation of a derived view, the table a call receives when
\* it produces the column of a dispatched feature (the expression call, the
\* over-window batch call, the temporal join call) already has the column of
\* every input feature of that feature that stands before it in the resolved
\* sequence.
C12_InputsExistWhenProduced ==
    (phase = "compiled" /\ view[1].type = "DerivedFeatureView") =>
        \A f \in Range(DispatchedFeatures) :
            \A c \in Range(calls) :
                ProducesColumn(c, f) =>
                    \A g \in Range(f.input_features) :
                        (/\ Contains(dependent_features, g)
                         /\ IndexOf(dependent_features, g) < IndexOf(dependent_features, f)) =>
                            Contains(TableById(c.args.input).fields, g.name)

====
